---------------------------- MODULE Spec2Model ----------------------------
(***************************************************************************)
(* A model of tk-premiere's adapter layer (python/tk_premiere): the bin    *)
(* tree traversal and the ensure/lookup/import operations of premiere.py,  *)
(* the metadata string patch, the metadata schema registration and the     *)
(* session snapshot of session_info.py.                                    *)
(*                                                                         *)
(* Text is modelled as a sequence of one-character strings.  The host      *)
(* (Premiere, reached through the bridge's proxy objects) is modelled as   *)
(* the data it holds: the project item tree, one item's metadata blob, the *)
(* metadata schema and the open projects.                                  *)
(***************************************************************************)
EXTENDS Integers, Sequences, FiniteSets, TLC

VARIABLES
    items,      \* host: the project items, items[1] is the root item
    children,   \* host: children[i] is the child collection of item i
    blob,       \* host: the project metadata text of one project item
    schema,     \* host: the properties of the project metadata schema
    app,        \* host: the open projects, and which one is the current one
    pc,         \* "idle", "bins" while a PremiereProject.bins walk runs, and
                \* "returned" while the caller holds the result of a call
    binsStack,  \* the local list `bins` of PremiereProject.bins
    binsOut,    \* what the generator has yielded so far
    call,       \* the last API call: its name and arguments
    ret,        \* what it returned
    raised,     \* the exception it raised, "" when none
    hostLog,    \* the host calls it made, in order
    pre         \* the host data it started from

vars == <<items, children, blob, schema, app, pc, binsStack, binsOut, call, ret, raised, hostLog, pre>>

-----------------------------------------------------------------------------
(* Bounds of the model *)

InitItems == 3      \* non-root items of an initial project
SmallItems == 2     \* non-root items of an initial project that calls will change
MaxItems == 4       \* items of a project, root included
MaxNulls == 1       \* null child slots of an initial project
MaxPathLen == 5     \* characters of a bin path
MaxSequences == 2   \* sequences of an open project
MaxProjects == 2    \* open projects
MaxTracks == 2      \* tracks in a list handed to get_tracks
MaxEntries == 2     \* property entries of an initial metadata text
MaxNameLen == 2     \* characters of a metadata property name
MaxValueLen == 2    \* characters of a metadata value

-----------------------------------------------------------------------------
(* Values *)

\* Python's None, and the 0 or null a proxy returns for a missing object
NULL == 0

\* class ItemType(IntEnum)
CLIP == 1
BIN == 2
ROOT == 3
FILE == 4

NoError == ""
InvalidPathError == "ValueError: Invalid import bin path"
CreateClipError == "ValueError: Unable to create a clip"
RetrieveClipError == "ValueError: Unable to retrieve the created clip"

RECURSIVE SeqsUpTo(_, _)
\* every sequence over S of length at most n
SeqsUpTo(S, n) ==
    IF n = 0 THEN {<<>>}
    ELSE LET shorter == SeqsUpTo(S, n - 1)
         IN  shorter \cup {Append(s, c) : s \in {t \in shorter : Len(t) = n - 1}, c \in S}

NameChars == {"a", "b"}
PathChars == {"a", "/"}
Paths == SeqsUpTo(PathChars, MaxPathLen)
InitNames == {<<c>> : c \in NameChars}

-----------------------------------------------------------------------------
(* The host's project item tree *)

Host == [items |-> items, children |-> children]

RootItem == 1

\* bin.children.numItems
NumItems(h, b) == Len(h.children[b])

\* bin.children[i], i counted from 0
ChildAt(h, b, i) == h.children[b][i + 1]

\* the kinds of item an initial project holds: clips, sequences (clips whose
\* isSequence() is true), bins and files
Kinds ==
    { [type |-> CLIP, seq |-> FALSE], [type |-> CLIP, seq |-> TRUE],
      [type |-> BIN, seq |-> FALSE], [type |-> FILE, seq |-> FALSE] }

RootRecord == [type |-> ROOT, seq |-> FALSE, name |-> <<>>]

RECURSIVE SlotsOf(_, _, _, _, _)
\* the child collection of item b: its children in creation order, a null
\* slot before each child in nulls, and a trailing null slot when b is in nulls
SlotsOf(b, n, parent, nulls, i) ==
    IF i > n + 1 THEN (IF b \in nulls /\ b = RootItem THEN <<NULL>> ELSE <<>>)
    ELSE (IF parent[i] # b THEN <<>>
          ELSE IF i \in nulls THEN <<NULL, i>> ELSE <<i>>)
         \o SlotsOf(b, n, parent, nulls, i + 1)

\* the ways to lay out n items under the root: each item's kind, name and
\* parent (the root or a bin created before it), and where the null slots are
TreeChoices(n) ==
    LET ids == 2..(n + 1) IN
    { c \in [ kind : [ids -> Kinds], name : [ids -> InitNames],
              parent : [ids -> 1..(n + 1)],
              nulls : { s \in SUBSET (1..(n + 1)) : Cardinality(s) <= MaxNulls } ] :
        \A i \in ids : /\ c.parent[i] < i
                       /\ (c.parent[i] = RootItem \/ c.kind[c.parent[i]].type = BIN) }

\* the projects with n items under the root
TreesOf(n) ==
    { [ items |-> [i \in 1..(n + 1) |->
                     IF i = RootItem THEN RootRecord
                     ELSE [type |-> c.kind[i].type, seq |-> c.kind[i].seq,
                           name |-> c.name[i]]],
        children |-> [b \in 1..(n + 1) |-> SlotsOf(b, n, c.parent, c.nulls, 2)] ] :
      c \in TreeChoices(n) }

InitTrees == UNION { TreesOf(n) : n \in 0..InitItems }
SmallTrees == UNION { TreesOf(n) : n \in 0..SmallItems }

-----------------------------------------------------------------------------
(* PremiereProject.bins *)

RECURSIVE BinChildren(_, _, _)
\* the for loop of bins: the children of b, by index from i on, that are not
\* null and report the BIN type, in index order
BinChildren(h, b, i) ==
    IF i >= NumItems(h, b) THEN <<>>
    ELSE LET child == ChildAt(h, b, i)
         IN  (IF child # NULL /\ h.items[child].type = BIN THEN <<child>> ELSE <<>>)
             \o BinChildren(h, b, i + 1)

\* a scan that stops one index short: range(numItems - 1)
BinsScanShort(h, b) ==
    BinChildren([h EXCEPT !.children[b] = SubSeq(@, 1, Len(@) - 1)], b, 0)

\* one turn of the for loop's range
BinsScan(h, b) == BinChildren(h, b, 0)

Idle == pc = "idle"

\* bins = [self._item.rootItem]
BinsStart ==
    /\ Idle
    /\ pc' = "bins"
    /\ binsStack' = <<RootItem>>
    /\ binsOut' = <<>>
    /\ call' = [op |-> "bins"]
    /\ ret' = NULL
    /\ raised' = NoError
    /\ hostLog' = <<>>
    /\ pre' = Host
    /\ UNCHANGED <<schema, app, items, children, blob>>

\* one turn of `while bins`: pop, scan the children, yield the popped bin
BinsStep ==
    /\ pc = "bins"
    /\ binsStack # <<>>
    /\ LET bin == binsStack[Len(binsStack)]
           rest == SubSeq(binsStack, 1, Len(binsStack) - 1)
       IN  /\ binsStack' = rest \o BinsScan(Host, bin)
           /\ binsOut' = Append(binsOut, bin)
    /\ UNCHANGED <<schema, app, items, children, blob, pc, call, ret, raised, hostLog, pre>>

\* `while bins` ends: the generator is exhausted
BinsFinish ==
    /\ pc = "bins"
    /\ binsStack = <<>>
    /\ pc' = "returned"
    /\ ret' = binsOut
    /\ UNCHANGED <<schema, app, items, children, blob, binsStack, binsOut, call, raised, hostLog, pre>>

-----------------------------------------------------------------------------
(* PremiereBin: lookup, create, ensure *)

RECURSIVE ScanBinByName(_, _, _, _)
\* the for loop of get_bin_by_name from index i on: the first child that is
\* not null, reports the BIN type and has the given name, or None
ScanBinByName(h, b, name, i) ==
    IF i >= NumItems(h, b) THEN NULL
    ELSE LET child == ChildAt(h, b, i)
         IN  IF child # NULL /\ h.items[child].type = BIN /\ h.items[child].name = name
             THEN child
             ELSE ScanBinByName(h, b, name, i + 1)

\* a lookup that takes the first child of that name, whatever its type
GetBinByNameAnyType(h, b, name) ==
    LET hits == { i \in 0..(NumItems(h, b) - 1) :
                    /\ ChildAt(h, b, i) # NULL
                    /\ h.items[ChildAt(h, b, i)].name = name }
    IN  IF hits = {} THEN NULL
        ELSE ChildAt(h, b, CHOOSE i \in hits : \A j \in hits : i <= j)

\* PremiereBin.get_bin_by_name
GetBinByName(h, b, name) == ScanBinByName(h, b, name, 0)

\* the host's createBin: a new bin item, appended to the children of b
HostCreateBin(h, b, name) ==
    LET new == Len(h.items) + 1
    IN  [ h |-> [ items |-> Append(h.items, [type |-> BIN, seq |-> FALSE, name |-> name]),
                  children |-> Append([h.children EXCEPT ![b] = Append(@, new)], <<>>) ],
          ret |-> new ]

\* PremiereBin.create_bin: the result of an operation is the host data it
\* leaves, what it returns, the host calls it made and what it raised
CreateBin(h, b, name) ==
    LET made == HostCreateBin(h, b, name)
    IN  [ h |-> made.h, ret |-> made.ret, raised |-> NoError,
          log |-> << <<"createBin", b, name>> >> ]

\* an ensure that creates without looking
EnsureBinAlways(h, b, name) ==
    LET made == CreateBin(h, b, name)
    IN  [made EXCEPT !.log = << <<"children", b>> >> \o @]

\* PremiereBin.ensure_bin
EnsureBin(h, b, name) ==
    LET bin == GetBinByName(h, b, name)
    IN  IF bin = NULL
        THEN LET made == CreateBin(h, b, name)
             IN  [made EXCEPT !.log = << <<"children", b>> >> \o @]
        ELSE [ h |-> h, ret |-> bin, raised |-> NoError, log |-> << <<"children", b>> >> ]

\* PremiereProject.ensure_bin: ensure_bin of the root item's bin
ProjectEnsureBin(h, name) == EnsureBin(h, RootItem, name)

\* the names callers look up and create: those of the initial project and a
\* capital spelling of one of them
LookupNames == InitNames \cup {<<"A">>}

\* a call of bin.get_bin_by_name(name)
CallGetBinByName ==
    /\ Idle
    /\ \E b \in {i \in 1..Len(items) : items[i].type \in {BIN, ROOT}}, name \in LookupNames :
         /\ call' = [op |-> "get_bin_by_name", bin |-> b, name |-> name]
         /\ ret' = GetBinByName(Host, b, name)
         /\ hostLog' = << <<"children", b>> >>
    /\ raised' = NoError
    /\ pre' = Host
    /\ pc' = "returned"
    /\ UNCHANGED <<schema, app, items, children, blob, binsStack, binsOut>>

\* what a call of ensure_bin leaves
EnsureBinDone(r, on, b, name) ==
    /\ Len(r.h.items) <= MaxItems
    /\ items' = r.h.items
    /\ children' = r.h.children
    /\ call' = [op |-> "ensure_bin", on |-> on, bin |-> b, name |-> name]
    /\ ret' = r.ret
    /\ raised' = r.raised
    /\ hostLog' = r.log
    /\ pre' = Host
    /\ pc' = "returned"
    /\ UNCHANGED <<schema, app, blob, binsStack, binsOut>>

\* a call of bin.ensure_bin(name)
CallEnsureBin ==
    /\ Idle
    /\ \E b \in {i \in 1..Len(items) : items[i].type \in {BIN, ROOT}}, name \in LookupNames :
         EnsureBinDone(EnsureBin(Host, b, name), "bin", b, name)

\* a call of project.ensure_bin(name)
CallProjectEnsureBin ==
    /\ Idle
    /\ \E name \in LookupNames :
         EnsureBinDone(ProjectEnsureBin(Host, name), "project", RootItem, name)

-----------------------------------------------------------------------------
(* PremiereProject.ensure_bins_for_path *)

RECURSIVE Split(_, _, _)
\* path.split(sep): the pieces between the separators, empty ones included;
\* cur is the piece being read
Split(path, sep, cur) ==
    IF path = <<>> THEN <<cur>>
    ELSE IF Head(path) = sep THEN <<cur>> \o Split(Tail(path), sep, <<>>)
    ELSE Split(Tail(path), sep, Append(cur, Head(path)))

RECURSIVE StripSlashes(_)
\* path.strip("/")
StripSlashes(path) ==
    IF path = <<>> THEN path
    ELSE IF Head(path) = "/" THEN StripSlashes(Tail(path))
    ELSE IF path[Len(path)] = "/" THEN StripSlashes(SubSeq(path, 1, Len(path) - 1))
    ELSE path

\* a split that keeps the empty pieces: path.split("/")
PartsKeepEmpty(path) == Split(path, "/", <<>>)

\* a split that only strips the ends: path.strip("/").split("/")
PartsStripOnly(path) == Split(StripSlashes(path), "/", <<>>)

\* [p for p in path.split("/") if p]
Parts(path) == SelectSeq(Split(path, "/", <<>>), LAMBDA p : p # <<>>)

RECURSIVE EnsureEach(_, _)
\* the for loop over parts[1:], carried in the result of the ensure before it
EnsureEach(r, parts) ==
    IF parts = <<>> THEN r
    ELSE LET step == EnsureBin(r.h, r.ret, Head(parts))
         IN  EnsureEach([step EXCEPT !.log = r.log \o @], Tail(parts))

EnsureBinsForPath(h, path) ==
    LET parts == Parts(path)
    IN  IF parts = <<>>
        THEN [ h |-> h, ret |-> NULL, raised |-> InvalidPathError, log |-> <<>> ]
        ELSE EnsureEach(EnsureBin(h, RootItem, parts[1]), Tail(parts))

\* a call of project.ensure_bins_for_path(path)
CallEnsureBinsForPath ==
    /\ Idle
    /\ \E path \in Paths :
         LET r == EnsureBinsForPath(Host, path)
         IN  /\ Len(r.h.items) <= MaxItems
             /\ items' = r.h.items
             /\ children' = r.h.children
             /\ call' = [op |-> "ensure_bins_for_path", path |-> path]
             /\ ret' = r.ret
             /\ raised' = r.raised
             /\ hostLog' = r.log
    /\ pre' = Host
    /\ pc' = "returned"
    /\ UNCHANGED <<schema, app, blob, binsStack, binsOut>>

-----------------------------------------------------------------------------
(* PremiereBin.create_clip_from_media *)

\* what the host's importFiles may do to the children of the target bin: add
\* nothing, append a clip, a sequence, a bin or a file, append a null slot, or
\* put the new clip first; and what it reports
ImportEffects == {"nothing", "append", "first", "null"}
ImportKinds == Kinds

HostImportFiles(h, b, effect, kind) ==
    LET new == Len(h.items) + 1
        item == [type |-> kind.type, seq |-> kind.seq, name |-> <<"m">>]
        added(slots) ==
            [ items |-> Append(h.items, item),
              children |-> Append([h.children EXCEPT ![b] = slots], <<>>) ]
    IN  CASE effect = "nothing" -> h
          [] effect = "append" -> added(Append(h.children[b], new))
          [] effect = "first" -> added(<<new>> \o h.children[b])
          [] effect = "null" -> [h EXCEPT !.children[b] = Append(@, NULL)]

\* a create_clip_from_media that trusts what importFiles reported
CreateClipTrusting(h, b, effect, kind, reported) ==
    LET after == HostImportFiles(h, b, effect, kind)
        log == << <<"importFiles", b, reported>> >>
        last == IF NumItems(after, b) = 0 THEN NULL
                ELSE ChildAt(after, b, NumItems(after, b) - 1)
    IN  IF ~reported
        THEN [ h |-> after, ret |-> NULL, raised |-> CreateClipError, log |-> log ]
        ELSE IF last = NULL \/ after.items[last].type # CLIP
        THEN [ h |-> after, ret |-> NULL, raised |-> RetrieveClipError, log |-> log ]
        ELSE [ h |-> after, ret |-> last, raised |-> NoError, log |-> log ]

\* a create_clip_from_media that returns the last child whatever its type
CreateClipUntyped(h, b, effect, kind, reported) ==
    LET old_count == NumItems(h, b)
        after == HostImportFiles(h, b, effect, kind)
        log == << <<"importFiles", b, reported>> >>
        last == ChildAt(after, b, NumItems(after, b) - 1)
    IN  IF old_count = NumItems(after, b)
        THEN [ h |-> after, ret |-> NULL, raised |-> CreateClipError, log |-> log ]
        ELSE IF last = NULL
        THEN [ h |-> after, ret |-> NULL, raised |-> RetrieveClipError, log |-> log ]
        ELSE [ h |-> after, ret |-> last, raised |-> NoError, log |-> log ]

\* PremiereBin.create_clip_from_media
CreateClipFromMedia(h, b, effect, kind, reported) ==
    LET old_count == NumItems(h, b)
        after == HostImportFiles(h, b, effect, kind)
        log == << <<"importFiles", b, reported>> >>
        last == ChildAt(after, b, NumItems(after, b) - 1)
    IN  IF old_count = NumItems(after, b)
        THEN [ h |-> after, ret |-> NULL, raised |-> CreateClipError, log |-> log ]
        ELSE IF last = NULL \/ after.items[last].type # CLIP
        THEN [ h |-> after, ret |-> NULL, raised |-> RetrieveClipError, log |-> log ]
        ELSE [ h |-> after, ret |-> last, raised |-> NoError, log |-> log ]

RECURSIVE SlotCount(_, _)
\* the child slots of the items from b on, null slots included
SlotCount(h, b) ==
    IF b > Len(h.items) THEN 0 ELSE NumItems(h, b) + SlotCount(h, b + 1)

\* the items a PremiereBin can wrap: the root item and the bins
Folders(h) == {i \in 1..Len(h.items) : h.items[i].type \in {BIN, ROOT}}

\* a call of bin.create_clip_from_media(media_path)
CallCreateClipFromMedia ==
    /\ Idle
    /\ \E b \in Folders(Host), effect \in ImportEffects, kind \in ImportKinds,
          reported \in BOOLEAN :
         LET r == CreateClipFromMedia(Host, b, effect, kind, reported)
         IN  /\ Len(r.h.items) <= MaxItems
             /\ SlotCount(r.h, 1) <= MaxItems
             /\ items' = r.h.items
             /\ children' = r.h.children
             /\ call' = [op |-> "create_clip_from_media", bin |-> b]
             /\ ret' = r.ret
             /\ raised' = r.raised
             /\ hostLog' = r.log
    /\ pre' = Host
    /\ pc' = "returned"
    /\ UNCHANGED <<schema, app, blob, binsStack, binsOut>>

-----------------------------------------------------------------------------
(* PremiereItem.get_meta_data and set_meta_data                            *)
(*                                                                         *)
(* The metadata text is a sequence of characters in which the two literals *)
(* of the patterns are one token each: "O" is the text                     *)
(* <premierePrivateProjectMetaData: and "C" is the text                    *)
(* </premierePrivateProjectMetaData: .  Both start with "<" and hold no    *)
(* other "<", ">" or line break, so a match of either pattern starts and   *)
(* ends between tokens.                                                    *)

\* what get_meta_data returns when the search finds nothing: None
None == <<"None">>

ReError == "re.error"

NameLetters == {"p"}
\* property names: a letter, then letters or dots ('Column.PropertyBool.Hide')
Names ==
    { n \in SeqsUpTo(NameLetters \cup {"."}, MaxNameLen) :
        n # <<>> /\ n[1] \in NameLetters }

\* the characters of a value: a letter, the backslash and the line break
ValueChars == {"g", "\\", "\n"}
Values == SeqsUpTo(ValueChars, MaxValueLen)

\* the values the host has stored before any write of this layer
StoredValues == {<<>>, <<"g">>}

Min(S) == CHOOSE x \in S : \A y \in S : x <= y
Max(S) == CHOOSE x \in S : \A y \in S : y <= x

\* one pattern character against one token: the property name goes into the
\* pattern unescaped, so its "." matches any one character but a line break
\* (of a token of many characters it would match the first, "<", and the
\* ">" that follows every name in the patterns then fails on the second)
AtomMatches(atom, tok) ==
    IF atom = "." THEN tok \notin {"\n", "O", "C"} ELSE tok = atom

\* the literal part lit of a pattern matches s from position i
LitMatches(s, i, lit) ==
    /\ i + Len(lit) - 1 <= Len(s)
    /\ \A k \in 1..Len(lit) : AtomMatches(lit[k], s[i + k - 1])

\* .* can cover s[a..b]: "." matches no line break
NoNewline(s, a, b) == \A k \in a..b : s[k] # "\n"

\* <premierePrivateProjectMetaData:%s>  and  </premierePrivateProjectMetaData:%s>
EntryHead(p) == <<"O">> \o p \o <<">">>
EntryTail(p) == <<"C">> \o p \o <<">">>

\* where the closing tag can start for a match of the property pattern that
\* starts at i
PropTailStarts(s, p, i) ==
    { k \in (i + Len(p) + 2)..Len(s) :
        NoNewline(s, i + Len(p) + 2, k - 1) /\ LitMatches(s, k, EntryTail(p)) }

NoMatch == [start |-> 0]

\* the leftmost match, from position `from` on, of
\*   <premierePrivateProjectMetaData:%s>(.*)</premierePrivateProjectMetaData:%s>
\* with the greedy (.*) as long as it can be
PropMatch(s, p, from) ==
    LET starts == { i \in from..Len(s) :
                      LitMatches(s, i, EntryHead(p)) /\ PropTailStarts(s, p, i) # {} }
    IN  IF starts = {} THEN NoMatch
        ELSE LET i == Min(starts)
                 k == Max(PropTailStarts(s, p, i))
             IN  [ start |-> i, group |-> SubSeq(s, i + Len(p) + 2, k - 1),
                   end |-> k + Len(p) + 1 ]

\* PremiereItem.get_meta_data on the text meta_data
GetMetaData(meta_data, p) ==
    LET m == PropMatch(meta_data, p, 1)
    IN  IF m.start = 0 THEN None ELSE m.group

RECURSIVE ExpandValue(_)
\* the value as part of the replacement template of re.sub: a backslash
\* starts an escape.  \\ is one backslash; \g must start a group reference
\* \g<name>, and none of these values holds a valid one; a backslash before a
\* character that is no letter or digit stays, as does the last one (the "<"
\* of the closing tag follows it)
ExpandValue(v) ==
    IF v = <<>> THEN [error |-> FALSE, text |-> <<>>]
    ELSE IF Head(v) # "\\"
    THEN LET rest == ExpandValue(Tail(v))
         IN  [rest EXCEPT !.text = <<Head(v)>> \o @]
    ELSE IF Len(v) = 1 THEN [error |-> FALSE, text |-> v]
    ELSE IF v[2] = "g" THEN [error |-> TRUE, text |-> <<>>]
    ELSE LET rest == ExpandValue(SubSeq(v, 3, Len(v)))
         IN  IF v[2] = "\\" THEN [rest EXCEPT !.text = <<"\\">> \o @]
             ELSE [rest EXCEPT !.text = <<"\\", v[2]>> \o @]

\* the replacement text of both substitutions
Replacement(p, v) ==
    LET e == ExpandValue(v)
    IN  [e EXCEPT !.text = EntryHead(p) \o @ \o EntryTail(p)]

RECURSIVE SubProp(_, _, _, _)
\* the first re.sub: every match of the property pattern, left to right from
\* position `from`, replaced by repl
SubProp(s, p, repl, from) ==
    LET m == PropMatch(s, p, from)
    IN  IF m.start = 0 THEN SubSeq(s, from, Len(s))
        ELSE SubSeq(s, from, m.start - 1) \o repl \o SubProp(s, p, repl, m.end + 1)

NotLt(tok) == tok \notin {"<", "O", "C"}

\* the matches, starting at i, of
\*   <premierePrivateProjectMetaData:[^<]+>(.*)</premierePrivateProjectMetaData:.*>
\* by the positions of the first ">", of the closing literal and of the last ">"
AnyGt(s, i) ==
    { j \in (i + 2)..Len(s) : s[j] = ">" /\ \A k \in (i + 1)..(j - 1) : NotLt(s[k]) }
AnyEnds(s, k) ==
    { e \in (k + 1)..Len(s) : s[e] = ">" /\ NoNewline(s, k + 1, e - 1) }
AnyClose(s, j) ==
    { k \in (j + 1)..Len(s) :
        s[k] = "C" /\ NoNewline(s, j + 1, k - 1) /\ AnyEnds(s, k) # {} }
AnyMatchAt(s, i) ==
    s[i] = "O" /\ \E j \in AnyGt(s, i) : AnyClose(s, j) # {}

\* the second re.sub, with count 1: the leftmost match replaced by repl; each
\* greedy part is as long as a match allows, the earlier part first
SubFirstAny(s, repl) ==
    LET starts == { i \in 1..Len(s) : AnyMatchAt(s, i) }
    IN  IF starts = {} THEN s
        ELSE LET i == Min(starts)
                 j == Max({ g \in AnyGt(s, i) : AnyClose(s, g) # {} })
                 k == Max(AnyClose(s, j))
                 e == Max(AnyEnds(s, k))
             IN  SubSeq(s, 1, i - 1) \o repl \o SubSeq(s, e + 1, Len(s))

\* PremiereItem.set_meta_data on an item whose metadata text is meta_data;
\* the host keeps the text setProjectMetadata is handed
SetMetaData(meta_data, p, v) ==
    LET r == Replacement(p, v)
        first == SubProp(meta_data, p, r.text, 1)
        repl == IF first = meta_data THEN SubFirstAny(meta_data, r.text) ELSE first
    IN  IF r.error
        THEN [ blob |-> meta_data, ret |-> None, raised |-> ReError,
               log |-> << <<"getProjectMetadata">> >> ]
        ELSE [ blob |-> repl, ret |-> GetMetaData(repl, p), raised |-> NoError,
               log |-> << <<"getProjectMetadata">>,
                          <<"setProjectMetadata", repl, p>>,
                          <<"getProjectMetadata">> >> ]

\* a call of item.set_meta_data(property, value)
CallSetMetaData ==
    /\ Idle
    /\ \E p \in Names, v \in Values :
         LET r == SetMetaData(blob, p, v)
         IN  /\ blob' = r.blob
             /\ call' = [op |-> "set_meta_data", property |-> p, value |-> v]
             /\ ret' = r.ret
             /\ raised' = r.raised
             /\ hostLog' = r.log
    /\ pre' = blob
    /\ pc' = "returned"
    /\ UNCHANGED <<schema, app, items, children, binsStack, binsOut>>

\* a call of item.get_meta_data(property)
CallGetMetaData ==
    /\ Idle
    /\ \E p \in Names :
         /\ call' = [op |-> "get_meta_data", property |-> p]
         /\ ret' = GetMetaData(blob, p)
    /\ raised' = NoError
    /\ hostLog' = << <<"getProjectMetadata">> >>
    /\ pre' = blob
    /\ pc' = "returned"
    /\ UNCHANGED <<schema, app, items, children, blob, binsStack, binsOut>>

\* one line of the text: a property entry
Entry(n, v) == EntryHead(n) \o v \o EntryTail(n) \o <<"\n">>

RECURSIVE EntryLines(_)
EntryLines(es) ==
    IF es = <<>> THEN <<>> ELSE Entry(es[1][1], es[1][2]) \o EntryLines(Tail(es))

\* the texts the host returns before any write of this layer: the opening
\* line, one line for each property that has been set, the closing line
InitBlobs ==
    { <<"<", "h", ">", "\n">> \o EntryLines(es) \o <<"<", "f", ">">> :
        es \in { e \in SeqsUpTo(Names \X StoredValues, MaxEntries) :
                   \A i, j \in 1..Len(e) : i # j => e[i][1] # e[j][1] } }

-----------------------------------------------------------------------------
(* PremiereProject.add_meta_data_property *)

UnsupportedTypeError == "ValueError: Unsupported property type"

UpperCase == << "A", "B", "C", "D", "E", "F", "G", "H", "I", "J", "K", "L", "M",
                "N", "O", "P", "Q", "R", "S", "T", "U", "V", "W", "X", "Y", "Z" >>
LowerCase == << "a", "b", "c", "d", "e", "f", "g", "h", "i", "j", "k", "l", "m",
                "n", "o", "p", "q", "r", "s", "t", "u", "v", "w", "x", "y", "z" >>

\* str.lower() on one character
LowerChar(c) ==
    IF \E k \in 1..Len(UpperCase) : UpperCase[k] = c
    THEN LowerCase[CHOOSE k \in 1..Len(UpperCase) : UpperCase[k] = c]
    ELSE c

\* a lookup key that is the type name as it was written
AsWritten(text) == text

\* property_type.lower()
Lower(text) == [k \in 1..Len(text) |-> LowerChar(text[k])]

\* the dictionary of add_meta_data_property
ValueTypes ==
    { << <<"i", "n", "t">>, 0 >>, << <<"i", "n", "t", "e", "g", "e", "r">>, 0 >>, << <<"r", "e", "a", "l">>, 1 >>, << <<"f", "l", "o", "a", "t">>, 1 >>,
      << <<"s", "t", "r">>, 2 >>, << <<"s", "t", "r", "i", "n", "g">>, 2 >>, << <<"b", "o", "o", "l">>, 3 >>, << <<"b", "o", "o", "l", "e", "a", "n">>, 3 >> }

\* dict.get(key): the value under the key, or None
DictGet(dict, key) ==
    IF \E e \in dict : e[1] = key
    THEN [none |-> FALSE, value |-> (CHOOSE e \in dict : e[1] = key)[2]]
    ELSE [none |-> TRUE]

\* the host's addPropertyToProjectMetadataSchema: a property that is in the
\* schema already keeps its label and type
HostAddProperty(sch, name, label, type) ==
    IF \E e \in sch : e.name = name THEN sch
    ELSE sch \cup {[name |-> name, label |-> label, type |-> type]}

AddMetaDataProperty(sch, name, display_name, property_type) ==
    LET value_type == DictGet(ValueTypes, Lower(property_type))
    IN  IF value_type.none
        THEN [ schema |-> sch, raised |-> UnsupportedTypeError, log |-> <<>> ]
        ELSE [ schema |-> HostAddProperty(sch, name, display_name, value_type.value),
               raised |-> NoError,
               log |-> << <<"addPropertyToProjectMetadataSchema",
                            name, display_name, value_type.value>> >> ]

UpperChar(c) ==
    IF \E k \in 1..Len(LowerCase) : LowerCase[k] = c
    THEN UpperCase[CHOOSE k \in 1..Len(LowerCase) : LowerCase[k] = c]
    ELSE c

RECURSIVE CaseVariants(_)
\* every way to write the word in upper and lower case letters
CaseVariants(word) ==
    IF word = <<>> THEN {<<>>}
    ELSE { <<c>> \o t : c \in {Head(word), UpperChar(Head(word))},
                        t \in CaseVariants(Tail(word)) }

\* the type names of the dictionary and some it does not hold, in every case
TypeWords ==
    { <<"i", "n", "t">>, <<"i", "n", "t", "e", "g", "e", "r">>, <<"r", "e", "a", "l">>, <<"f", "l", "o", "a", "t">>, <<"s", "t", "r">>, <<"s", "t", "r", "i", "n", "g">>, <<"b", "o", "o", "l">>, <<"b", "o", "o", "l", "e", "a", "n">>,
      <<>>, <<"i", "n">>, <<"i", "n", "t", "s">>, <<"d", "o", "u", "b", "l", "e">>, <<"n", "u", "m", "b", "e", "r">> }
TypeNames == UNION { CaseVariants(w) : w \in TypeWords }

PropertyNames == {"x", "y"}
DisplayNames == {"X", "Y"}

\* a call of project.add_meta_data_property(name, display_name, property_type)
CallAddMetaDataProperty ==
    /\ Idle
    /\ \E name \in PropertyNames, label \in DisplayNames, type \in TypeNames :
         LET r == AddMetaDataProperty(schema, name, label, type)
         IN  /\ schema' = r.schema
             /\ call' = [op |-> "add_meta_data_property", name |-> name,
                         display_name |-> label, property_type |-> type]
             /\ raised' = r.raised
             /\ hostLog' = r.log
    /\ ret' = NULL
    /\ pre' = schema
    /\ pc' = "returned"
    /\ UNCHANGED <<app, items, children, blob, binsStack, binsOut>>

-----------------------------------------------------------------------------
(* SessionInfo                                                             *)
(*                                                                         *)
(* What a proxy hands back is either a plain value or, for a host object,  *)
(* another proxy.  The values of the dictionaries are tagged to tell them  *)
(* apart.                                                                  *)

ZeroDivisionError == "ZeroDivisionError"
AttributeError == "AttributeError"

Value(x) == [tag |-> "value", val |-> x]
List(l) == [tag |-> "list", val |-> l]
Proxy(kind, id) == [tag |-> "proxy", val |-> <<kind, id>>]
NoneValue == [tag |-> "value", val |-> None]

Ok(v) == [raised |-> NoError, val |-> v]
Raise(e) == [raised |-> e, val |-> <<>>]

\* ticks / timebase, for a timebase that is not zero; the model's tick counts
\* are multiples of its timebases
Quotient(ticks, timebase) == Value(ticks \div timebase)

RECURSIVE GetTransitions(_, _)
\* SessionInfo.get_transitions: one dictionary for each transition
GetTransitions(transitions, timebase) ==
    IF transitions = <<>> THEN Ok(<<>>)
    ELSE IF timebase = 0 THEN Raise(ZeroDivisionError)
    ELSE LET i == Head(transitions)
             item == [ name |-> Value(i.name),
                       duration |-> Quotient(i.duration, timebase),
                       start |-> Quotient(i.start, timebase),
                       end |-> Quotient(i.end, timebase),
                       mediaType |-> Value(i.mediaType),
                       speed |-> Value(i.speed) ]
             rest == GetTransitions(Tail(transitions), timebase)
         IN  IF rest.raised # NoError THEN rest ELSE Ok(<<item>> \o rest.val)

RECURSIVE GetClipItems(_, _)
\* SessionInfo.get_clip_items: one dictionary for each track item
GetClipItems(clips, timebase) ==
    IF clips = <<>> THEN Ok(<<>>)
    ELSE IF timebase = 0 THEN Raise(ZeroDivisionError)
    ELSE LET i == Head(clips)
             getMediaPath_clip ==
                 IF i.hasMediaPath THEN Value(i.mediaPath) ELSE NoneValue
             item == [ name |-> Value(i.name),
                       duration |-> Quotient(i.duration, timebase),
                       start |-> Quotient(i.start, timebase),
                       end |-> Quotient(i.end, timebase),
                       inPoint |-> Quotient(i.inPoint, timebase),
                       outPoint |-> Quotient(i.outPoint, timebase),
                       mediaType |-> Value(i.mediaType),
                       source_path_clip |-> getMediaPath_clip,
                       isSelected |-> Value(i.selected),
                       speed |-> Value(i.speed),
                       isAdjustmentLayer |-> Value(i.adjustment) ]
             rest == GetClipItems(Tail(clips), timebase)
         IN  IF rest.raised # NoError THEN rest ELSE Ok(<<item>> \o rest.val)

RECURSIVE TracksLoop(_, _, _)
\* `for t in tracks: ... tracks.append(track)` from index k on: the loop runs
\* over the list it appends to
TracksLoop(tracks, k, timebase) ==
    IF k > Len(tracks) THEN Ok(tracks)
    ELSE LET t == tracks[k]
             clips == GetClipItems(t.clips, timebase)
             transitions == GetTransitions(t.transitions, timebase)
             track == [ id |-> Value(t.id),
                        name |-> Value(t.name),
                        mediaType |-> Value(t.mediaType),
                        clips |-> List(clips.val),
                        transitions |-> List(transitions.val),
                        isMuted |-> Value(t.muted) ]
         IN  IF clips.raised # NoError THEN clips
             ELSE IF transitions.raised # NoError THEN transitions
             ELSE TracksLoop(Append(tracks, track), k + 1, timebase)

\* SessionInfo.get_tracks: line 90, `tracks = list()`, binds the name of the
\* parameter to a new empty list, and the loop runs over that list
GetTracks(given, timebase) ==
    LET tracks == <<>>
    IN  TracksLoop(tracks, 1, timebase)

RECURSIVE SequencesLoop(_, _, _)
\* `for s in sequences: ... sequences.append(sequence)` from index k on
SequencesLoop(sequences, k, active_seq) ==
    IF k > Len(sequences) THEN Ok(sequences)
    ELSE LET s == sequences[k]
             timebase == s.timebase
             videoTracks == GetTracks(s.videoTracks, timebase)
             audioTracks == GetTracks(s.audioTracks, timebase)
             sequence == [ sequenceID |-> Value(s.sequenceID),
                           name |-> Value(s.name),
                           inPoint |-> Quotient(s.inPoint, timebase),
                           outPoint |-> Quotient(s.outPoint, timebase),
                           timebase |-> Value(s.timebase),
                           zeroPoint |-> Quotient(s.zeroPoint, timebase),
                           end |-> Quotient(s.end, timebase),
                           videoTracks |-> List(videoTracks.val),
                           audioTracks |-> List(audioTracks.val) ]
         IN  IF active_seq.none THEN Raise(AttributeError)
             ELSE IF s.name # active_seq.name
             THEN SequencesLoop(sequences, k + 1, active_seq)
             ELSE IF timebase = 0 THEN Raise(ZeroDivisionError)
             ELSE IF videoTracks.raised # NoError THEN videoTracks
             ELSE IF audioTracks.raised # NoError THEN audioTracks
             ELSE SequencesLoop(Append(sequences, sequence), k + 1, active_seq)

\* project.activeSequence: the active sequence of the project, or null
ActiveSequence(project) ==
    IF project.activeSequence = 0 THEN [none |-> TRUE]
    ELSE [none |-> FALSE, name |-> project.sequences[project.activeSequence].name]

\* SessionInfo.get_sequences: line 110, `sequences = list()`, binds the name
\* of the parameter to a new empty list, and the loop runs over that list;
\* the active sequence is the one of the current project, app.project
GetSequences(given, a) ==
    LET sequences == <<>>
        prj == a.projects[a.project]
        active_seq == ActiveSequence(prj)
    IN  SequencesLoop(sequences, 1, active_seq)

RECURSIVE GetInfoLoop(_, _)
\* the for loop of get_info over the projects from index k on
GetInfoLoop(a, k) ==
    IF k > Len(a.projects) THEN Ok(<<>>)
    ELSE LET p == a.projects[k]
             sequences == GetSequences(p.sequences, a)
             project == [ documentID |-> Value(p.documentID),
                          name |-> Value(p.name),
                          path |-> Value(p.path),
                          sequences |-> List(sequences.val),
                          activeSequence |->
                              IF p.activeSequence = 0 THEN NoneValue
                              ELSE Proxy("Sequence",
                                         p.sequences[p.activeSequence].sequenceID) ]
             rest == GetInfoLoop(a, k + 1)
         IN  IF sequences.raised # NoError THEN sequences
             ELSE IF rest.raised # NoError THEN rest
             ELSE Ok(<<project>> \o rest.val)

\* SessionInfo.get_info
GetInfo(a) == GetInfoLoop(a, 1)

\* a call of session_info.get_info()
CallGetInfo ==
    /\ Idle
    /\ LET r == GetInfo(app)
       IN  /\ ret' = r.val
           /\ raised' = r.raised
    /\ call' = [op |-> "get_info"]
    /\ hostLog' = <<>>
    /\ pre' = app
    /\ pc' = "returned"
    /\ UNCHANGED <<schema, app, items, children, blob, binsStack, binsOut>>

\* the sequences of the model: one video track with one clip and one
\* transition, no audio track
TrackItem ==
    [ name |-> "shot", duration |-> 4, start |-> 0, end |-> 4, inPoint |-> 0,
      outPoint |-> 4, mediaType |-> "Video", hasMediaPath |-> TRUE,
      mediaPath |-> "/media/shot.mov", selected |-> FALSE, speed |-> 1,
      adjustment |-> FALSE ]
Transition ==
    [ name |-> "fade", duration |-> 4, start |-> 4, end |-> 8,
      mediaType |-> "Video", speed |-> 1 ]
Track ==
    [ id |-> 1, name |-> "V1", mediaType |-> "Video", muted |-> FALSE,
      clips |-> <<TrackItem>>, transitions |-> <<Transition>> ]

\* the ticks-per-unit a sequence reports
Timebases == {0, 2, 4}

AudioTrack ==
    [ id |-> 2, name |-> "A1", mediaType |-> "Audio", muted |-> TRUE,
      clips |-> <<>>, transitions |-> <<>> ]

\* the lists of tracks a caller hands to get_tracks
TrackLists == SeqsUpTo({Track, AudioTrack}, MaxTracks)

\* a call of session_info.get_tracks(tracks, timebase)
CallGetTracks ==
    /\ Idle
    /\ \E tracks \in TrackLists, timebase \in Timebases :
         LET r == GetTracks(tracks, timebase)
         IN  /\ call' = [op |-> "get_tracks", tracks |-> tracks, timebase |-> timebase]
             /\ ret' = r.val
             /\ raised' = r.raised
    /\ hostLog' = <<>>
    /\ pre' = app
    /\ pc' = "returned"
    /\ UNCHANGED <<schema, app, items, children, blob, binsStack, binsOut>>

SequenceOf(id, name, timebase) ==
    [ sequenceID |-> id, name |-> name, timebase |-> timebase,
      inPoint |-> 4, outPoint |-> 8, zeroPoint |-> 0, end |-> 12,
      videoTracks |-> <<Track>>, audioTracks |-> <<>> ]

SequenceNames == {"A", "B"}

\* the open projects of the model: up to MaxSequences sequences each, any of
\* them or none the active one
Projects ==
    UNION { { [ documentID |-> "doc", name |-> "edit.prproj",
                path |-> "/projects/edit.prproj",
                sequences |-> [k \in 1..Len(names) |->
                                  SequenceOf(k, names[k], timebases[k])],
                activeSequence |-> active ] :
              active \in 0..Len(names),
              timebases \in [1..Len(names) -> Timebases] } :
            names \in SeqsUpTo(SequenceNames, MaxSequences) }

-----------------------------------------------------------------------------
(* Clips of a bin and of the project *)

RECURSIVE BinClipsFrom(_, _, _, _)
\* the for loop of PremiereBin.clips from index i on: what has been yielded
\* when the generator ends or raises.  sequences tells whether the CLIP
\* children that are sequences are yielded.  A null child is None, and
\* child.type raises on it
BinClipsFrom(h, b, i, sequences) ==
    IF i >= NumItems(h, b) THEN [out |-> <<>>, raised |-> NoError]
    ELSE LET child == ChildAt(h, b, i)
         IN  IF child = NULL THEN [out |-> <<>>, raised |-> AttributeError]
             ELSE LET rest == BinClipsFrom(h, b, i + 1, sequences)
                  IN  IF h.items[child].type = CLIP /\ (sequences \/ ~h.items[child].seq)
                      THEN [rest EXCEPT !.out = <<child>> \o @]
                      ELSE rest

\* a clips that yields the sequences too
BinClipsWithSequences(h, b) == BinClipsFrom(h, b, 0, TRUE)

\* PremiereBin.clips
BinClips(h, b) == BinClipsFrom(h, b, 0, FALSE)

RECURSIVE BinsWalk(_, _)
\* PremiereProject.bins, from the stack of bins still to visit: the bins in
\* the order they are yielded
BinsWalk(h, bins) ==
    IF bins = <<>> THEN <<>>
    ELSE LET bin == bins[Len(bins)]
             rest == SubSeq(bins, 1, Len(bins) - 1)
         IN  <<bin>> \o BinsWalk(h, rest \o BinsScan(h, bin))

RECURSIVE ClipsOfBins(_, _)
\* the loops of PremiereProject.clips over the bins still to come
ClipsOfBins(h, bins) ==
    IF bins = <<>> THEN [out |-> <<>>, raised |-> NoError]
    ELSE LET first == BinClips(h, Head(bins))
             rest == ClipsOfBins(h, Tail(bins))
         IN  IF first.raised # NoError THEN first
             ELSE [rest EXCEPT !.out = first.out \o @]

\* PremiereProject.clips
ProjectClips(h) == ClipsOfBins(h, BinsWalk(h, <<RootItem>>))

\* PremiereProject.get_clip_by_id: the scan returns at the first clip of that
\* node id, before the generator goes on
GetClipById(h, node_id) ==
    LET clips == ProjectClips(h)
    IN  IF \E k \in 1..Len(clips.out) : clips.out[k] = node_id
        THEN [ret |-> node_id, raised |-> NoError]
        ELSE [ret |-> NULL, raised |-> clips.raised]

\* a caller that takes every clip of bin.clips
CallBinClips ==
    /\ Idle
    /\ \E b \in Folders(Host) :
         LET r == BinClips(Host, b)
         IN  /\ call' = [op |-> "bin_clips", bin |-> b]
             /\ ret' = r.out
             /\ raised' = r.raised
             /\ hostLog' = << <<"children", b>> >>
    /\ pre' = Host
    /\ pc' = "returned"
    /\ UNCHANGED <<schema, app, items, children, blob, binsStack, binsOut>>

\* a caller that takes every clip of project.clips
CallProjectClips ==
    /\ Idle
    /\ LET r == ProjectClips(Host)
       IN  /\ ret' = r.out
           /\ raised' = r.raised
    /\ call' = [op |-> "clips"]
    /\ hostLog' = <<>>
    /\ pre' = Host
    /\ pc' = "returned"
    /\ UNCHANGED <<schema, app, items, children, blob, binsStack, binsOut>>

\* a call of project.get_clip_by_id(node_id), for the node id of an item of
\* the project or one that no item has
CallGetClipById ==
    /\ Idle
    /\ \E node_id \in 1..(Len(items) + 1) :
         LET r == GetClipById(Host, node_id)
         IN  /\ call' = [op |-> "get_clip_by_id", node_id |-> node_id]
             /\ ret' = r.ret
             /\ raised' = r.raised
    /\ hostLog' = <<>>
    /\ pre' = Host
    /\ pc' = "returned"
    /\ UNCHANGED <<schema, app, items, children, blob, binsStack, binsOut>>

-----------------------------------------------------------------------------

NoCall == [op |-> "none"]

\* the caller drops the result of the last call: wrappers hold no state of
\* their own, only the host data stays
Forget ==
    /\ pc = "returned"
    /\ pc' = "idle"
    /\ binsStack' = <<>>
    /\ binsOut' = <<>>
    /\ call' = NoCall
    /\ ret' = NULL
    /\ raised' = NoError
    /\ hostLog' = <<>>
    /\ pre' = NULL
    /\ UNCHANGED <<schema, app, items, children, blob>>

NoProjects == [projects |-> <<>>, project |-> 0]

EmptyProject ==
    /\ items = <<RootRecord>>
    /\ children = << <<>> >>

\* a session with nothing done yet
Quiet ==
    /\ pc = "idle"
    /\ binsStack = <<>>
    /\ binsOut = <<>>
    /\ call = NoCall
    /\ ret = NULL
    /\ raised = NoError
    /\ hostLog = <<>>
    /\ pre = NULL

\* a project as the session starts, with no call made yet
InitOn(trees) ==
    /\ \E t \in trees : items = t.items /\ children = t.children
    /\ Quiet
    /\ blob = <<>>
    /\ schema = {}
    /\ app = NoProjects

(* Walking the bins of a project *)
Init == InitOn(InitTrees)

Next ==
    \/ BinsStart
    \/ BinsStep
    \/ BinsFinish
    \/ Forget

Spec == Init /\ [][Next]_vars

(* Ensuring bins in a project *)
InitEnsure == InitOn(SmallTrees)

NextEnsure ==
    \/ CallEnsureBinsForPath
    \/ Forget

SpecEnsure == InitEnsure /\ [][NextEnsure]_vars

(* Looking up and ensuring bins *)
InitLookup == InitOn(SmallTrees)

NextLookup ==
    \/ CallGetBinByName
    \/ CallEnsureBin
    \/ CallProjectEnsureBin
    \/ Forget

SpecLookup == InitLookup /\ [][NextLookup]_vars

(* Enumerating clips *)
InitClips == InitOn(InitTrees)

NextClips ==
    \/ CallBinClips
    \/ CallProjectClips
    \/ CallGetClipById
    \/ Forget

SpecClips == InitClips /\ [][NextClips]_vars

(* Importing media into a project *)
InitImport == InitOn(SmallTrees)

NextImport ==
    \/ CallCreateClipFromMedia
    \/ Forget

SpecImport == InitImport /\ [][NextImport]_vars

(* Reading and writing the metadata of an item *)
InitMeta ==
    /\ Quiet
    /\ EmptyProject
    /\ blob \in InitBlobs
    /\ schema = {}
    /\ app = NoProjects

NextMeta ==
    \/ CallSetMetaData
    \/ CallGetMetaData
    \/ Forget

SpecMeta == InitMeta /\ [][NextMeta]_vars

(* Registering metadata properties *)
InitSchema ==
    /\ Quiet
    /\ EmptyProject
    /\ blob = <<>>
    /\ schema = {}
    /\ app = NoProjects

NextSchema ==
    \/ CallAddMetaDataProperty
    \/ Forget

SpecSchema == InitSchema /\ [][NextSchema]_vars

(* Taking a snapshot of the session *)
InitInfo ==
    /\ Quiet
    /\ EmptyProject
    /\ blob = <<>>
    /\ schema = {}
    /\ \E ps \in SeqsUpTo(Projects, MaxProjects) :
         /\ ps # <<>>
         /\ \E current \in 1..Len(ps) : app = [projects |-> ps, project |-> current]

NextInfo ==
    \/ CallGetInfo
    \/ Forget

SpecInfo == InitInfo /\ [][NextInfo]_vars

(* Reading the tracks of a sequence *)
InitTracks ==
    /\ Quiet
    /\ EmptyProject
    /\ blob = <<>>
    /\ schema = {}
    /\ \E p \in Projects : app = [projects |-> <<p>>, project |-> 1]

NextTracks ==
    \/ CallGetTracks
    \/ Forget

SpecTracks == InitTracks /\ [][NextTracks]_vars

-----------------------------------------------------------------------------
(* Properties of the bin walk *)

RECURSIVE FolderClosure(_, _)
\* the folders of the tree: the least set that holds the root item and every
\* bin that fills a child slot of one of its members
FolderClosure(h, S) ==
    LET more == S \cup { c \in 1..Len(h.items) :
                           /\ h.items[c].type = BIN
                           /\ \E b \in S : \E i \in 1..Len(h.children[b]) :
                                h.children[b][i] = c }
    IN  IF more = S THEN S ELSE FolderClosure(h, more)

TreeFolders(h) == FolderClosure(h, {RootItem})

HasNullSlot(h) ==
    \E b \in 1..Len(h.items) : \E i \in 1..Len(h.children[b]) : h.children[b][i] = NULL

\* C1: a finished walk of PremiereProject.bins has yielded every folder of the
\* tree, the root included, exactly once, null child slots or not: as many
\* bins as the tree has folders, and each folder at exactly one position
C1_BinsYieldEachFolderOnce ==
    (call.op = "bins" /\ pc = "returned") =>
        /\ Len(ret) = Cardinality(TreeFolders(Host))
        /\ \A f \in TreeFolders(Host) :
             Cardinality({i \in 1..Len(ret) : ret[i] = f}) = 1

\* a finished walk of a tree with a null slot, a bin inside a bin and a bin
\* beside it
C1_Witness ==
    /\ call.op = "bins" /\ pc = "returned"
    /\ HasNullSlot(Host)
    /\ Len(ret) = 4
    /\ \E b \in TreeFolders(Host) : b # RootItem /\ BinsScan(Host, b) # <<>>

-----------------------------------------------------------------------------
(* Properties of ensure_bins_for_path *)

RECURSIVE Squeeze(_)
\* the path with every run of slashes made one slash
Squeeze(path) ==
    IF Len(path) < 2 THEN path
    ELSE IF path[1] = "/" /\ path[2] = "/" THEN Squeeze(Tail(path))
    ELSE <<path[1]>> \o Squeeze(Tail(path))

\* the path without a slash at either end
Trimmed(path) ==
    LET front == IF path # <<>> /\ path[1] = "/" THEN Tail(path) ELSE path
    IN  IF front # <<>> /\ front[Len(front)] = "/"
        THEN SubSeq(front, 1, Len(front) - 1) ELSE front

\* two paths differ only by leading, trailing or doubled slashes
SameButSlashes(p, q) == Trimmed(Squeeze(p)) = Trimmed(Squeeze(q))

OnlySlashes(path) == \A i \in 1..Len(path) : path[i] = "/"

\* C4: a path that differs from the called one only by leading, trailing or
\* doubled slashes performs, from the same tree, the same host calls, leaves
\* the same tree and returns the same bin (or raises the same error)
C4_SlashesDoNotMatter ==
    call.op = "ensure_bins_for_path" =>
        \A q \in Paths :
            SameButSlashes(call.path, q) =>
                LET r == EnsureBinsForPath(pre, q)
                IN  /\ r.h = Host
                    /\ r.ret = ret
                    /\ r.log = hostLog
                    /\ r.raised = raised

\* "/a//a" was ensured and made at least one bin
C4_Witness ==
    /\ call.op = "ensure_bins_for_path"
    /\ call.path = <<"/", "a", "/", "/", "a">>
    /\ ret # NULL
    /\ Len(items) > Len(pre.items)

\* C5: a path with no segment (empty, or only slashes) raises the invalid
\* path error with no host call made, no bin returned and the tree as it was
C5_EmptyPathRaisesFirst ==
    (call.op = "ensure_bins_for_path" /\ OnlySlashes(call.path)) =>
        /\ raised = InvalidPathError
        /\ hostLog = <<>>
        /\ ret = NULL
        /\ Host = pre

\* "//" was refused
C5_Witness ==
    /\ call.op = "ensure_bins_for_path"
    /\ call.path = <<"/", "/">>
    /\ raised = InvalidPathError

-----------------------------------------------------------------------------
(* Properties of create_clip_from_media *)

\* C7: when the bin has as many children after importFiles as before,
\* create_clip_from_media raises the creation error and returns no clip,
\* whatever importFiles reported
C7_SameCountFails ==
    (call.op = "create_clip_from_media"
        /\ NumItems(Host, call.bin) = NumItems(pre, call.bin)) =>
        /\ raised = CreateClipError
        /\ ret = NULL

\* the import added nothing to a bin whose last child is a clip, and the host
\* reported success
C7_Witness ==
    /\ call.op = "create_clip_from_media"
    /\ NumItems(Host, call.bin) = NumItems(pre, call.bin)
    /\ hostLog = << <<"importFiles", call.bin, TRUE>> >>
    /\ NumItems(Host, call.bin) > 0
    /\ LET last == ChildAt(Host, call.bin, NumItems(Host, call.bin) - 1)
       IN  last # NULL /\ items[last].type = CLIP
    /\ raised = CreateClipError

-----------------------------------------------------------------------------
(* Properties of the metadata string patch *)

\* the text lit stands in s at position i
TextAt(s, i, lit) ==
    /\ i + Len(lit) - 1 <= Len(s)
    /\ \A k \in 1..Len(lit) : s[i + k - 1] = lit[k]

\* the text holds a property entry: an opening and a closing tag of one name
\* on one line
HasEntry(s) ==
    \E n \in SeqsUpTo(NameLetters \cup {"."}, MaxNameLen + 1) :
        \E i \in 1..Len(s) :
            /\ TextAt(s, i, <<"O">> \o n \o <<">">>)
            /\ \E k \in (i + Len(n) + 2)..Len(s) :
                 NoNewline(s, i, k) /\ TextAt(s, k, <<"C">> \o n \o <<">">>)

\* C2, as claimed: on a text with at least one property entry,
\* set_meta_data(p, v) followed by get_meta_data(p) returns exactly v
C2_RoundTrip ==
    (call.op = "set_meta_data" /\ HasEntry(pre)) =>
        (raised = NoError /\ ret = call.value /\ GetMetaData(blob, call.property) = call.value)

\* C3, as claimed: on a text with no property entry, set_meta_data(p, v) does
\* not raise, hands the host the text it fetched, and get_meta_data(p) then
\* returns None
C3_NoEntryWriteIsSilent ==
    (call.op = "set_meta_data" /\ ~HasEntry(pre)) =>
        /\ raised = NoError
        /\ hostLog = << <<"getProjectMetadata">>,
                        <<"setProjectMetadata", pre, call.property>>,
                        <<"getProjectMetadata">> >>
        /\ ret = None
        /\ GetMetaData(blob, call.property) = None

-----------------------------------------------------------------------------
(* Properties of add_meta_data_property *)

\* the type names and codes as documented
TypeCodes ==
    { <<<<"i", "n", "t">>, 0>>, <<<<"i", "n", "t", "e", "g", "e", "r">>, 0>>, <<<<"r", "e", "a", "l">>, 1>>, <<<<"f", "l", "o", "a", "t">>, 1>>,
      <<<<"s", "t", "r">>, 2>>, <<<<"s", "t", "r", "i", "n", "g">>, 2>>, <<<<"b", "o", "o", "l">>, 3>>, <<<<"b", "o", "o", "l", "e", "a", "n">>, 3>> }

\* two characters are one letter, in either case
SameLetter(c, d) ==
    \/ c = d
    \/ \E k \in 1..Len(UpperCase) : {c, d} = {UpperCase[k], LowerCase[k]}

SameIgnoringCase(a, b) ==
    Len(a) = Len(b) /\ \A k \in 1..Len(a) : SameLetter(a[k], b[k])

\* C6: a type name that is, up to case, one of int/integer, real/float,
\* str/string, bool/boolean registers the property with the code 0, 1, 2, 3
\* of that name in one host call; any other type name raises the invalid
\* argument error, makes no host call and leaves the schema as it was
C6_TypeCodes ==
    call.op = "add_meta_data_property" =>
        LET hits == { e \in TypeCodes : SameIgnoringCase(call.property_type, e[1]) }
        IN  IF hits # {}
            THEN /\ raised = NoError
                 /\ \A e \in hits :
                      hostLog = << <<"addPropertyToProjectMetadataSchema",
                                     call.name, call.display_name, e[2]>> >>
            ELSE /\ raised = UnsupportedTypeError
                 /\ hostLog = <<>>
                 /\ schema = pre

\* "INTEGER" registered code 0, as "int" does
C6_Witness ==
    /\ call.op = "add_meta_data_property"
    /\ call.property_type = <<"I", "N", "T", "E", "G", "E", "R">>
    /\ hostLog = << <<"addPropertyToProjectMetadataSchema", call.name, call.display_name, 0>> >>
    /\ AddMetaDataProperty(pre, call.name, call.display_name, <<"i", "n", "t">>).log = hostLog


(* Taking a snapshot of the session *)

RECURSIVE Serializable(_)
\* a tagged value that holds no live handle, at any depth
Serializable(v) ==
    IF v.tag = "proxy" THEN FALSE
    ELSE IF v.tag = "list"
         THEN \A k \in 1..Len(v.val) :
                  \A f \in DOMAIN v.val[k] : Serializable(v.val[k][f])
         ELSE TRUE

\* the names of a project's sequences, in order
SequenceNamesOf(p) == [k \in 1..Len(p.sequences) |-> p.sequences[k].name]

\* get_info() has returned normally
InfoReturned == pc = "returned" /\ call.op = "get_info" /\ raised = NoError

\* C8: for a project with sequences named A, B whose active sequence is B,
\* the entry get_info() returns for that project lists exactly one sequence,
\* named B, with in point, out point, zero point and end divided by the
\* timebase of B.
C8_ActiveSequenceSnapshot ==
    InfoReturned =>
        \A k \in 1..Len(pre.projects) :
            LET p == pre.projects[k]
            IN  ( /\ SequenceNamesOf(p) = <<"A", "B">>
                  /\ p.activeSequence = 2
                  /\ pre.project = k
                  /\ p.sequences[2].timebase # 0 )
                => LET b == p.sequences[2]
                       listed == ret[k].sequences.val
                   IN  /\ Len(listed) = 1
                       /\ listed[1].name = Value("B")
                       /\ listed[1].inPoint = Value(b.inPoint \div b.timebase)
                       /\ listed[1].outPoint = Value(b.outPoint \div b.timebase)
                       /\ listed[1].zeroPoint = Value(b.zeroPoint \div b.timebase)
                       /\ listed[1].end = Value(b.end \div b.timebase)

\* C9: what get_info() returns is made of mappings, lists and plain values
\* only; no field of any entry holds a live host handle.
C9_SnapshotHoldsNoHandle ==
    InfoReturned =>
        \A k \in 1..Len(ret) : \A f \in DOMAIN ret[k] : Serializable(ret[k][f])

\* C10: when the active sequence of an open project reports a timebase of
\* zero, get_info() raises; it does not return a snapshot.
C10_ZeroTimebaseRaises ==
    (pc = "returned" /\ call.op = "get_info") =>
        ( (\E k \in 1..Len(pre.projects) :
               LET p == pre.projects[k]
               IN  /\ p.activeSequence # 0
                   /\ p.sequences[p.activeSequence].timebase = 0)
          => raised # NoError )


(* Looking up and ensuring bins *)

\* the indices, from 0, of the children of b that are not null, report the
\* BIN type and are named name
ChildFoldersNamed(h, b, name) ==
    { i \in 0..(NumItems(h, b) - 1) :
        /\ ChildAt(h, b, i) # NULL
        /\ h.items[ChildAt(h, b, i)].type = BIN
        /\ h.items[ChildAt(h, b, i)].name = name }

\* C11: get_bin_by_name(name) returns the lowest-index immediate child that
\* is not null, is a folder and is named exactly name, or None when there is
\* none; it raises nothing and leaves the tree as it was.
C11_LookupFindsFirstChildFolder ==
    (pc = "returned" /\ call.op = "get_bin_by_name") =>
        LET hits == ChildFoldersNamed(pre, call.bin, call.name)
        IN  /\ raised = NoError
            /\ Host = pre
            /\ ret = IF hits = {} THEN NULL ELSE ChildAt(pre, call.bin, Min(hits))

\* a lookup that passes over a null slot and a child of the same name that
\* is no folder, and finds the first of two folders of that name
C11_Witness ==
    /\ pc = "returned" /\ call.op = "get_bin_by_name"
    /\ ret # NULL
    /\ \E i, j \in 0..(NumItems(pre, call.bin) - 1) :
         /\ i < j
         /\ ChildAt(pre, call.bin, j) = ret
         /\ \/ ChildAt(pre, call.bin, i) = NULL
            \/ /\ ChildAt(pre, call.bin, i) # NULL
               /\ pre.items[ChildAt(pre, call.bin, i)].name = call.name

\* a lookup that finds nothing although a folder of the same name in another
\* letter case is there
C11_WitnessCase ==
    /\ pc = "returned" /\ call.op = "get_bin_by_name"
    /\ ret = NULL
    /\ call.name = <<"a">>
    /\ ChildFoldersNamed(pre, call.bin, <<"A">>) # {}

\* the createBin calls among the host calls
CreateCalls(log) == SelectSeq(log, LAMBDA c : c[1] = "createBin")

\* no two child folders of b have the same name
NoDuplicateNames(h, b) ==
    \A name \in LookupNames : Cardinality(ChildFoldersNamed(h, b, name)) <= 1

\* what C12 says of one call of ensure_bin(name) on b, from before to after
EnsureBinStep(before, after, b, name, log, result) ==
    LET again == EnsureBin(after, b, name)
    IN  /\ IF ChildFoldersNamed(before, b, name) = {}
           THEN CreateCalls(log) = << <<"createBin", b, name>> >>
           ELSE CreateCalls(log) = <<>> /\ after = before
        /\ NoDuplicateNames(before, b) => NoDuplicateNames(after, b)
        /\ again.ret = result
        /\ again.h = after
        /\ CreateCalls(again.log) = <<>>

\* C12: ensure_bin(name) calls createBin exactly when the folder has no child
\* folder named name; a folder without duplicate child-folder names stays
\* without them, and a repeated ensure_bin(name) returns the same folder and
\* leaves the tree as it is.
C12_EnsureCreatesOnlyWhenAbsent ==
    [][ (pc = "idle" /\ pc' = "returned" /\ call'.op = "ensure_bin") =>
            EnsureBinStep(Host, [items |-> items', children |-> children'],
                          call'.bin, call'.name, hostLog', ret') ]_vars

\* an ensure_bin that created a folder beside one of the same name in
\* another letter case
C12_Witness ==
    /\ pc = "returned" /\ call.op = "ensure_bin"
    /\ call.name = <<"a">>
    /\ CreateCalls(hostLog) # <<>>
    /\ ChildFoldersNamed(pre, call.bin, <<"A">>) # {}
    /\ ChildFoldersNamed(Host, call.bin, <<"a">>) # {}


(* Importing media: the child that is returned *)

\* C13: when the child count of the folder differs after the import,
\* create_clip_from_media returns the child at the last index if it is not
\* null and reports the CLIP type, and raises the retrieval error otherwise;
\* it returns no child of another index and no item that is not a clip.
C13_ReturnsLastChildIfClip ==
    ( /\ pc = "returned" /\ call.op = "create_clip_from_media"
      /\ NumItems(pre, call.bin) # NumItems(Host, call.bin) ) =>
        LET last == ChildAt(Host, call.bin, NumItems(Host, call.bin) - 1)
        IN  IF last # NULL /\ items[last].type = CLIP
            THEN raised = NoError /\ ret = last
            ELSE raised = RetrieveClipError /\ ret = NULL

\* the host put the new clip first, and the call returned the clip that was
\* last before the import
C13_Witness ==
    /\ pc = "returned" /\ call.op = "create_clip_from_media"
    /\ NumItems(pre, call.bin) # NumItems(Host, call.bin)
    /\ raised = NoError
    /\ ret <= Len(pre.items)
    /\ ChildAt(Host, call.bin, 0) > Len(pre.items)


(* Enumerating clips *)

\* the children of b that report the CLIP type and are no sequences, in
\* index order
PlainClips(h, b) ==
    SelectSeq(h.children[b],
              LAMBDA c : c # NULL /\ h.items[c].type = CLIP /\ ~h.items[c].seq)

NoNullChild(h, b) == \A k \in 1..Len(h.children[b]) : h.children[b][k] # NULL

\* C14: for a folder whose children are all non-null, PremiereBin.clips
\* yields, in index order, exactly the children that report the CLIP type
\* and are no sequences.
C14_BinClipsAreThePlainClips ==
    (pc = "returned" /\ call.op = "bin_clips" /\ NoNullChild(pre, call.bin)) =>
        (raised = NoError /\ ret = PlainClips(pre, call.bin))

\* a folder holding a clip, a sequence and a bin or file, of which the clip
\* alone is yielded
C14_Witness ==
    /\ pc = "returned" /\ call.op = "bin_clips"
    /\ NoNullChild(pre, call.bin)
    /\ Len(ret) = 1
    /\ \E k \in 1..Len(children[call.bin]) : items[children[call.bin][k]].seq
    /\ \E k \in 1..Len(children[call.bin]) :
         items[children[call.bin][k]].type \in {BIN, FILE}

\* C17, as claimed: with a null entry in some child slot, project.clips and
\* get_clip_by_id complete without raising, the first yields every clip of
\* every folder that is no sequence, and the second finds every such clip.
C17_ClipsTolerateNullSlots ==
    LET all == { c \in 1..Len(items) :
                   \E b \in TreeFolders(Host) :
                       \E k \in 1..Len(PlainClips(Host, b)) :
                           PlainClips(Host, b)[k] = c }
    IN  /\ (pc = "returned" /\ call.op = "clips") =>
               /\ raised = NoError
               /\ {ret[k] : k \in 1..Len(ret)} = all
        /\ (pc = "returned" /\ call.op = "get_clip_by_id") =>
               /\ raised = NoError
               /\ ret = IF call.node_id \in all THEN call.node_id ELSE NULL


(* Reading the tracks of a sequence *)

\* the dictionary C15 says get_tracks builds of track t
TrackEntry(t, timebase) ==
    [ id |-> Value(t.id),
      name |-> Value(t.name),
      mediaType |-> Value(t.mediaType),
      clips |-> List(GetClipItems(t.clips, timebase).val),
      transitions |-> List(GetTransitions(t.transitions, timebase).val),
      isMuted |-> Value(t.muted) ]

\* C15, as claimed: get_tracks(tracks, timebase) returns one dictionary for
\* each track of the list it is given, in the same order, with the track's
\* id, name, media type and muted flag and its clip and transition entries
\* for that timebase.
C15_OneEntryPerTrack ==
    (pc = "returned" /\ call.op = "get_tracks" /\ call.timebase # 0) =>
        /\ raised = NoError
        /\ ret = [k \in 1..Len(call.tracks) |-> TrackEntry(call.tracks[k], call.timebase)]


(* The metadata write and the other entries *)

\* the lines of the text
Lines(s) == Split(s, "\n", <<>>)

\* the line is the entry of property n: its opening tag, a value, its
\* closing tag
IsEntry(line, n) ==
    /\ Len(line) >= Len(EntryHead(n)) + Len(EntryTail(n))
    /\ TextAt(line, 1, EntryHead(n))
    /\ TextAt(line, Len(line) - Len(EntryTail(n)) + 1, EntryTail(n))

\* the entries of the text, in order, and those of properties other than p
AllEntries(s) == SelectSeq(Lines(s), LAMBDA line : \E n \in Names : IsEntry(line, n))
OtherEntries(s, p) ==
    SelectSeq(Lines(s), LAMBDA line : \E n \in Names \ {p} : IsEntry(line, n))

\* the text has an entry for property p
HasEntryFor(s, p) == \E k \in 1..Len(Lines(s)) : IsEntry(Lines(s)[k], p)

\* C16, as claimed: when the text has an entry for p, set_meta_data(p, v)
\* hands the host a text with the entries of every other property as they
\* were and with as many entries as before, whatever v is.
C16_WriteKeepsOtherEntries ==
    (pc = "returned" /\ call.op = "set_meta_data" /\ HasEntryFor(pre, call.property)) =>
        \E k \in 1..Len(hostLog) :
            /\ hostLog[k][1] = "setProjectMetadata"
            /\ OtherEntries(hostLog[k][2], call.property) = OtherEntries(pre, call.property)
            /\ Len(AllEntries(hostLog[k][2])) = Len(AllEntries(pre))

====
